---- MODULE Spec2Model ----
(***************************************************************************)
(* Flood-susceptibility scoring core of floodsense: the two heuristic      *)
(* scorers (RandomForestModel, XGBoostModel), the stacking combiner        *)
(* (EnsemblePredictor) and its factor-importance explainer.                *)
(*                                                                         *)
(* JavaScript numbers are modelled in fixed point: the integer n stands    *)
(* for n / Unit, every product and quotient is rounded to the nearest      *)
(* multiple of 1 / Unit.  Factor values (metres, degrees, mm/year) are     *)
(* plain integers; every threshold the code compares them with is an       *)
(* integer.                                                                *)
(***************************************************************************)
EXTENDS Integers, Sequences, FiniteSets, TLC

----------------------------------------------------------------------------
(* Fixed-point arithmetic *)

Unit == 10000
Tenth == Unit \div 10
Hundredth == Unit \div 100

Abs(x) == IF x < 0 THEN -x ELSE x
Max(a, b) == IF a > b THEN a ELSE b
Min(a, b) == IF a < b THEN a ELSE b

\* a / b for an integer divisor b > 0, rounded to nearest
RDiv(a, b) == IF a >= 0 THEN (2 * a + b) \div (2 * b)
                        ELSE -((2 * (-a) + b) \div (2 * b))

\* x * y and x / y of two fixed-point numbers
Mul(x, y) == RDiv(x * y, Unit)
FDiv(x, y) == RDiv(x * Unit, y)

\* s[lo] + ... + s[hi]
RECURSIVE SumRange(_, _, _)
SumRange(s, lo, hi) ==
    IF lo > hi THEN 0
    ELSE IF lo = hi THEN s[lo]
    ELSE LET mid == (lo + hi) \div 2
         IN SumRange(s, lo, mid) + SumRange(s, mid + 1, hi)

SumSeq(s) == SumRange(s, 1, Len(s))

----------------------------------------------------------------------------
(* BaseModel.calculateRiskLevel *)

\* calculateRiskLevel with inclusive upper limits
calculateRiskLevelInclusive(probability) ==
    IF probability <= 25 * Hundredth THEN "Low"
    ELSE IF probability <= 50 * Hundredth THEN "Moderate"
    ELSE IF probability <= 75 * Hundredth THEN "High"
    ELSE "Very High"

calculateRiskLevel(probability) ==
    IF probability < 25 * Hundredth THEN "Low"
    ELSE IF probability < 50 * Hundredth THEN "Moderate"
    ELSE IF probability < 75 * Hundredth THEN "High"
    ELSE "Very High"

----------------------------------------------------------------------------
(* RandomForestModel *)

numTrees == 100

\* the land-use term switched on in the trees of odd index
useLULCOdd(treeIndex) == treeIndex % 2 = 1

\* the distance-to-river term left out of every fourth tree
useDistanceFourth(treeIndex) == treeIndex % 4 # 0

\* pseudo-random feature selection based on the tree index
useSlope(treeIndex) == treeIndex % 3 # 0
useDistance(treeIndex) == treeIndex % 5 # 0
useRainfall(treeIndex) == treeIndex % 7 # 0
useLULC(treeIndex) == treeIndex % 2 = 0

\* the value of `score' at the return of singleTreePredict
treeScore(factors, treeIndex) ==
    (IF ~useDistance(treeIndex) THEN 0
     ELSE IF factors.distanceToRiver < 50 THEN 9 * Tenth
     ELSE IF factors.distanceToRiver < 200 THEN 6 * Tenth
     ELSE IF factors.distanceToRiver < 500 THEN 4 * Tenth
     ELSE 2 * Tenth)
    + (IF ~useSlope(treeIndex) THEN 0
       ELSE IF factors.slope < 5 THEN 8 * Tenth
       ELSE IF factors.slope < 15 THEN 5 * Tenth
       ELSE IF factors.slope < 30 THEN 3 * Tenth
       ELSE 1 * Tenth)
    + (IF ~useRainfall(treeIndex) THEN 0
       ELSE IF factors.rainfall > 2200 THEN 7 * Tenth
       ELSE IF factors.rainfall > 1900 THEN 5 * Tenth
       ELSE 3 * Tenth)
    + (IF ~useLULC(treeIndex) THEN 0
       ELSE IF factors.landUseClass = "Urban Built-Up" THEN 7 * Tenth
       ELSE IF factors.landUseClass = "Agricultural Land" THEN 5 * Tenth
       ELSE 3 * Tenth)
    + (IF factors.profileCurvature < -2 THEN 6 * Tenth
       ELSE IF factors.profileCurvature < 0 THEN 4 * Tenth
       ELSE 0)
    + (IF factors.elevation < 50 THEN 7 * Tenth
       ELSE IF factors.elevation < 150 THEN 4 * Tenth
       ELSE 0)

\* the weight without the two terms every tree has
treeWeightOfFlags(treeIndex) ==
    (IF useDistance(treeIndex) THEN 15 * Tenth ELSE 0)
    + (IF useSlope(treeIndex) THEN 12 * Tenth ELSE 0)
    + (IF useRainfall(treeIndex) THEN 10 * Tenth ELSE 0)
    + (IF useLULC(treeIndex) THEN 10 * Tenth ELSE 0)

\* the value of `weight' at the return of singleTreePredict
treeWeight(treeIndex) ==
    (IF useDistance(treeIndex) THEN 15 * Tenth ELSE 0)
    + (IF useSlope(treeIndex) THEN 12 * Tenth ELSE 0)
    + (IF useRainfall(treeIndex) THEN 10 * Tenth ELSE 0)
    + (IF useLULC(treeIndex) THEN 10 * Tenth ELSE 0)
    + 8 * Tenth
    + 8 * Tenth

\* singleTreePredict returning the score without dividing by the weight
singleTreePredictUnnormalised(factors, treeIndex) ==
    IF treeWeight(treeIndex) > 0
    THEN treeScore(factors, treeIndex)
    ELSE 5 * Tenth

singleTreePredict(factors, treeIndex) ==
    IF treeWeight(treeIndex) > 0
    THEN FDiv(treeScore(factors, treeIndex), treeWeight(treeIndex))
    ELSE 5 * Tenth

calculateVariance(values) ==
    LET mean == RDiv(SumSeq(values), Len(values))
        squaredDiffs == [k \in 1..Len(values) |->
                            Mul(values[k] - mean, values[k] - mean)]
    IN RDiv(SumSeq(squaredDiffs), Len(values))

\* RFScore with the variance added to 1 instead of subtracted
RFScoreSignSlip(factors) ==
    LET treeVotes == [k \in 1..numTrees |-> singleTreePredict(factors, k - 1)]
        probability == RDiv(SumSeq(treeVotes), numTrees)
        voteVariance == calculateVariance(treeVotes)
        confidence == Max(5 * Tenth, Unit + voteVariance)
    IN [probability |-> probability,
        confidence |-> confidence,
        riskLevel |-> calculateRiskLevel(probability)]

RFScore(factors) ==
    LET treeVotes == [k \in 1..numTrees |-> singleTreePredict(factors, k - 1)]
        probability == RDiv(SumSeq(treeVotes), numTrees)
        voteVariance == calculateVariance(treeVotes)
        confidence == Max(5 * Tenth, Unit - voteVariance)
    IN [probability |-> probability,
        confidence |-> confidence,
        riskLevel |-> calculateRiskLevel(probability)]

----------------------------------------------------------------------------
(* XGBoostModel *)

numRounds == 50
\* a learning rate of 0.01
learningRateSmall == 1 * Hundredth
\* a learning rate of 1.0
learningRateLarge == 10 * Tenth

learningRate == 1 * Tenth

calculateDistanceRisk(distance) ==
    IF distance < 50 THEN 95 * Hundredth
    ELSE IF distance < 100 THEN 85 * Hundredth
    ELSE IF distance < 200 THEN 70 * Hundredth
    ELSE IF distance < 500 THEN 50 * Hundredth
    ELSE IF distance < 1000 THEN 30 * Hundredth
    ELSE 15 * Hundredth

calculateSlopeRisk(slope) ==
    IF slope < 2 THEN 90 * Hundredth
    ELSE IF slope < 5 THEN 75 * Hundredth
    ELSE IF slope < 10 THEN 55 * Hundredth
    ELSE IF slope < 20 THEN 35 * Hundredth
    ELSE IF slope < 35 THEN 20 * Hundredth
    ELSE 10 * Hundredth

calculateRainfallRisk(rainfall) ==
    IF rainfall > 2400 THEN 85 * Hundredth
    ELSE IF rainfall > 2200 THEN 70 * Hundredth
    ELSE IF rainfall > 2000 THEN 60 * Hundredth
    ELSE IF rainfall > 1800 THEN 50 * Hundredth
    ELSE 40 * Hundredth

calculateLULCRisk(landUse) ==
    CASE landUse = "Urban Built-Up" -> 80 * Hundredth
      [] landUse = "Agricultural Land" -> 60 * Hundredth
      [] landUse = "Mixed Vegetation" -> 40 * Hundredth
      [] landUse = "Forest" -> 25 * Hundredth
      [] OTHER -> 50 * Hundredth

calculateElevationRisk(elevation) ==
    IF elevation < 20 THEN 85 * Hundredth
    ELSE IF elevation < 50 THEN 70 * Hundredth
    ELSE IF elevation < 100 THEN 55 * Hundredth
    ELSE IF elevation < 200 THEN 40 * Hundredth
    ELSE 25 * Hundredth

calculateCurvatureRisk(curvature) ==
    IF curvature < -3 THEN 80 * Hundredth
    ELSE IF curvature < -1 THEN 65 * Hundredth
    ELSE IF curvature < 0 THEN 55 * Hundredth
    ELSE IF curvature < 2 THEN 45 * Hundredth
    ELSE 35 * Hundredth

\* calculateGradient without the term of the factor in focus
calculateGradientNoFocus(factors, currentPrediction, round) ==
    Mul(calculateElevationRisk(factors.elevation) - currentPrediction,
        8 * Tenth)
    + Mul(calculateCurvatureRisk(factors.profileCurvature)
          - currentPrediction, 7 * Tenth)

calculateGradient(factors, currentPrediction, round) ==
    LET focusOnDistance == round % 4 = 0
        focusOnSlope == round % 4 = 1
        focusOnRainfall == round % 4 = 2
        focusOnLULC == round % 4 = 3
        gDistance == IF focusOnDistance
                     THEN Mul(calculateDistanceRisk(factors.distanceToRiver)
                              - currentPrediction, 15 * Tenth)
                     ELSE 0
        gSlope == IF focusOnSlope
                  THEN Mul(calculateSlopeRisk(factors.slope)
                           - currentPrediction, 12 * Tenth)
                  ELSE 0
        gRainfall == IF focusOnRainfall
                     THEN Mul(calculateRainfallRisk(factors.rainfall)
                              - currentPrediction, 10 * Tenth)
                     ELSE 0
        gLULC == IF focusOnLULC
                 THEN Mul(calculateLULCRisk(factors.landUseClass)
                          - currentPrediction, 11 * Tenth)
                 ELSE 0
        elevationRisk == calculateElevationRisk(factors.elevation)
        curvatureRisk == calculateCurvatureRisk(factors.profileCurvature)
    IN gDistance + gSlope + gRainfall + gLULC
       + Mul(elevationRisk - currentPrediction, 8 * Tenth)
       + Mul(curvatureRisk - currentPrediction, 7 * Tenth)

\* the boosting loop: roundPredictions after rounds round..numRounds-1
RECURSIVE BoostRounds(_, _, _)
BoostRounds(factors, roundPredictions, round) ==
    IF round >= numRounds THEN roundPredictions
    ELSE LET prediction == roundPredictions[Len(roundPredictions)]
             gradient == calculateGradient(factors, prediction, round)
             stepped == prediction + Mul(learningRate, gradient)
             clamped == Max(0, Min(Unit, stepped))
         IN BoostRounds(factors, Append(roundPredictions, clamped), round + 1)

\* calculateConvergence without the factor 5
calculateConvergenceNoScale(predictions) ==
    IF Len(predictions) < 2 THEN 0
    ELSE LET totalChange ==
                 SumSeq([k \in 1..(Len(predictions) - 1) |->
                            Abs(predictions[k + 1] - predictions[k])])
             avgChange == RDiv(totalChange, Len(predictions) - 1)
         IN Unit - Min(Unit, avgChange)

calculateConvergence(predictions) ==
    IF Len(predictions) < 2 THEN 0
    ELSE LET totalChange ==
                 SumSeq([k \in 1..(Len(predictions) - 1) |->
                            Abs(predictions[k + 1] - predictions[k])])
             avgChange == RDiv(totalChange, Len(predictions) - 1)
         IN Unit - Min(Unit, avgChange * 5)

XGBScore(factors) ==
    LET roundPredictions == BoostRounds(factors, <<5 * Tenth>>, 0)
        prediction == roundPredictions[Len(roundPredictions)]
        convergenceRate == calculateConvergence(roundPredictions)
        confidence == Min(95 * Hundredth,
                          70 * Hundredth + Mul(convergenceRate, 25 * Hundredth))
    IN [probability |-> prediction,
        confidence |-> confidence,
        riskLevel |-> calculateRiskLevel(prediction)]

----------------------------------------------------------------------------
(* EnsemblePredictor: pure parts *)

ensembleRiskLevel(probability) ==
    IF probability < 25 * Hundredth THEN "Low"
    ELSE IF probability < 50 * Hundredth THEN "Moderate"
    ELSE IF probability < 75 * Hundredth THEN "High"
    ELSE "Very High"

\* Stack with 0.4 and 0.6 exchanged in the confidence
StackConfidenceSlip(rfPrediction, xgbPrediction, rfW, xgbW) ==
    [probability |-> Mul(rfW, rfPrediction.probability)
                     + Mul(xgbW, xgbPrediction.probability),
     confidence |->
         Mul(Unit - Abs(rfPrediction.probability - xgbPrediction.probability),
             4 * Tenth)
         + Mul(RDiv(rfPrediction.confidence + xgbPrediction.confidence, 2),
               6 * Tenth),
     riskLevel |-> ensembleRiskLevel(Mul(rfW, rfPrediction.probability)
                                     + Mul(xgbW, xgbPrediction.probability)),
     rfProbability |-> rfPrediction.probability,
     xgbProbability |-> xgbPrediction.probability,
     ensembleWeight |-> [rf |-> rfW, xgb |-> xgbW]]

\* Stack with the two weights exchanged in the weighted sum
StackSwapped(rfPrediction, xgbPrediction, rfW, xgbW) ==
    [probability |-> Mul(xgbW, rfPrediction.probability)
                     + Mul(rfW, xgbPrediction.probability),
     confidence |->
         Mul(Unit - Abs(rfPrediction.probability - xgbPrediction.probability),
             6 * Tenth)
         + Mul(RDiv(rfPrediction.confidence + xgbPrediction.confidence, 2),
               4 * Tenth),
     riskLevel |-> ensembleRiskLevel(Mul(xgbW, rfPrediction.probability)
                                     + Mul(rfW, xgbPrediction.probability)),
     rfProbability |-> rfPrediction.probability,
     xgbProbability |-> xgbPrediction.probability,
     ensembleWeight |-> [rf |-> rfW, xgb |-> xgbW]]

\* the stacking step of EnsemblePredictor.predict, given the two sub-results
\* and the weights this.rfWeight, this.xgbWeight
Stack(rfPrediction, xgbPrediction, rfW, xgbW) ==
    [probability |-> Mul(rfW, rfPrediction.probability)
                     + Mul(xgbW, xgbPrediction.probability),
     confidence |->
         Mul(Unit - Abs(rfPrediction.probability - xgbPrediction.probability),
             6 * Tenth)
         + Mul(RDiv(rfPrediction.confidence + xgbPrediction.confidence, 2),
               4 * Tenth),
     riskLevel |-> ensembleRiskLevel(Mul(rfW, rfPrediction.probability)
                                     + Mul(xgbW, xgbPrediction.probability)),
     rfProbability |-> rfPrediction.probability,
     xgbProbability |-> xgbPrediction.probability,
     ensembleWeight |-> [rf |-> rfW, xgb |-> xgbW]]

riskOrder(risk) ==
    CASE risk = "Critical" -> 0
      [] risk = "High" -> 1
      [] risk = "Moderate" -> 2
      [] risk = "Low" -> 3

\* compareRisk with its operands exchanged
compareRiskReversed(a, b) == riskOrder(b.risk) - riskOrder(a.risk)

\* the comparator handed to Array.prototype.sort
compareRisk(a, b) == riskOrder(a.risk) - riskOrder(b.risk)

\* Array.prototype.sort is stable: x goes after every element that does
\* not compare greater than it
RECURSIVE InsertSorted(_, _)
InsertSorted(sorted, x) ==
    IF sorted = <<>> THEN <<x>>
    ELSE IF compareRisk(Head(sorted), x) <= 0
         THEN <<Head(sorted)>> \o InsertSorted(Tail(sorted), x)
         ELSE <<x>> \o sorted

RECURSIVE SortByRisk(_)
SortByRisk(items) ==
    IF items = <<>> THEN <<>>
    ELSE InsertSorted(SortByRisk(SubSeq(items, 1, Len(items) - 1)),
                      items[Len(items)])

\* the items each rule of the checklist pushes (message and icon are
\* presentation strings and are left out)
\* distanceItems with inclusive limits
distanceItemsInclusive(factors) ==
    IF factors.distanceToRiver <= 50
      THEN <<[factor |-> "Distance to River",
              value |-> factors.distanceToRiver, risk |-> "Critical"]>>
    ELSE IF factors.distanceToRiver <= 200
      THEN <<[factor |-> "Distance to River",
              value |-> factors.distanceToRiver, risk |-> "High"]>>
    ELSE <<>>

distanceItems(factors) ==
    IF factors.distanceToRiver < 50
      THEN <<[factor |-> "Distance to River",
              value |-> factors.distanceToRiver, risk |-> "Critical"]>>
    ELSE IF factors.distanceToRiver < 200
      THEN <<[factor |-> "Distance to River",
              value |-> factors.distanceToRiver, risk |-> "High"]>>
    ELSE <<>>

slopeItems(factors) ==
    IF factors.slope < 5
      THEN <<[factor |-> "Slope Gradient", value |-> factors.slope,
              risk |-> IF factors.slope < 2 THEN "Critical" ELSE "High"]>>
    ELSE <<>>

rainfallItems(factors) ==
    IF factors.rainfall > 2200
      THEN <<[factor |-> "Regional Rainfall",
              value |-> factors.rainfall, risk |-> "High"]>>
    ELSE IF factors.rainfall > 2000
      THEN <<[factor |-> "Regional Rainfall",
              value |-> factors.rainfall, risk |-> "Moderate"]>>
    ELSE <<>>

landUseItems(factors) ==
    IF factors.landUseClass = "Urban Built-Up"
      THEN <<[factor |-> "Land Use", value |-> 0, risk |-> "High"]>>
    ELSE <<>>

elevationItems(factors) ==
    IF factors.elevation < 50
      THEN <<[factor |-> "Elevation", value |-> factors.elevation,
              risk |-> "High"]>>
    ELSE <<>>

curvatureItems(factors) ==
    IF factors.profileCurvature < -2
      THEN <<[factor |-> "Terrain Curvature",
              value |-> factors.profileCurvature, risk |-> "Moderate"]>>
    ELSE <<>>

lithologyItems(factors) ==
    IF factors.lithology = "Alluvial Deposits"
      THEN <<[factor |-> "Lithology", value |-> 0, risk |-> "Moderate"]>>
    ELSE <<>>

\* the importance array in push order, before the sort
Checklist(factors) ==
    distanceItems(factors) \o slopeItems(factors) \o rainfallItems(factors)
    \o landUseItems(factors) \o elevationItems(factors)
    \o curvatureItems(factors) \o lithologyItems(factors)

analyzeFactors(factors) == SortByRisk(Checklist(factors))

----------------------------------------------------------------------------
(* Input domains *)

\* factor values on both sides of every threshold the scorers and the
\* explainer compare with; the threshold itself stands for its upper band
FactorValues ==
    [elevation |-> {10, 20, 50, 100, 150, 200},
     slope |-> {1, 2, 5, 10, 15, 20, 30, 35},
     profileCurvature |-> {-4, -3, -2, -1, 0, 2},
     distanceToRiver |-> {30, 50, 100, 200, 500, 1000},
     rainfall |-> {1800, 1900, 2000, 2200, 2400, 2500},
     landUseClass |-> {"Urban Built-Up", "Agricultural Land",
                       "Mixed Vegetation", "Forest", "Grassland"},
     lithology |-> {"Alluvial Deposits", "Sedimentary Rock"}]

FactorNames == DOMAIN FactorValues

HighRisk ==
    [elevation |-> 20, slope |-> 1, aspect |-> 90, profileCurvature |-> -4,
     distanceToRiver |-> 20, rainfall |-> 2500,
     landUseClass |-> "Urban Built-Up", lithology |-> "Alluvial Deposits"]

MidRisk ==
    [elevation |-> 100, slope |-> 5, aspect |-> 90, profileCurvature |-> -2,
     distanceToRiver |-> 200, rainfall |-> 2200,
     landUseClass |-> "Agricultural Land", lithology |-> "Sedimentary Rock"]

LowRisk ==
    [elevation |-> 400, slope |-> 40, aspect |-> 270, profileCurvature |-> 3,
     distanceToRiver |-> 1500, rainfall |-> 1700,
     landUseClass |-> "Forest", lithology |-> "Volcanic Rock"]

BaseFactors == {HighRisk, MidRisk, LowRisk}

FieldChoices == UNION {{<<n, v>> : v \in FactorValues[n]} : n \in FactorNames}

\* every FactorSet that differs from a base set in at most two fields
SweepFactors ==
    {[[b EXCEPT ![c1[1]] = c1[2]] EXCEPT ![c2[1]] = c2[2]] :
        b \in BaseFactors, c1 \in FieldChoices, c2 \in FieldChoices}

\* the FactorSets the calls of Spec are made with
SampleFactors ==
    BaseFactors \cup
    {[HighRisk EXCEPT !.distanceToRiver = 30],
     [HighRisk EXCEPT !.distanceToRiver = 150, !.slope = 1],
     [MidRisk EXCEPT !.distanceToRiver = 50, !.slope = 4],
     [MidRisk EXCEPT !.rainfall = 2100, !.landUseClass = "Urban Built-Up"],
     [LowRisk EXCEPT !.profileCurvature = -3, !.lithology = "Alluvial Deposits"]}

\* A TrainingPoint is modelled by its label: no operation reads its factors.
MaxTrainingPoints == 2

TrainingPoints == [flooded : BOOLEAN]

RECURSIVE SeqsUpTo(_, _)
SeqsUpTo(S, n) ==
    IF n = 0 THEN {<<>>}
    ELSE LET shorter == SeqsUpTo(S, n - 1)
         IN shorter \cup {Append(q, x) : q \in shorter, x \in S}

TrainingInputs == SeqsUpTo(TrainingPoints, MaxTrainingPoints)

----------------------------------------------------------------------------
(* Locations and the boundary check of analyzeLocation *)

\* A Location is a pair of coordinates in hundredths of a degree.
Deg == 100

Location(latitude, longitude) ==
    [latitude |-> latitude, longitude |-> longitude]

\* the vertices [lat, lng] of the mainland polygon, first and last the same
DAVAO_MAINLAND_POLYGON ==
    << <<696, 12536>>, <<695, 12545>>, <<697, 12552>>, <<698, 12558>>,
       <<699, 12563>>, <<702, 12565>>, <<708, 12566>>, <<712, 12567>>,
       <<718, 12566>>, <<722, 12564>>, <<725, 12560>>, <<725, 12556>>,
       <<723, 12552>>, <<721, 12549>>, <<718, 12546>>, <<714, 12544>>,
       <<710, 12542>>, <<706, 12540>>, <<702, 12538>>, <<698, 12537>>,
       <<696, 12536>> >>

\* one turn of the loop of isPointInPolygon: does the edge from vertex j to
\* vertex i cross the ray? The division by yj - yi is cleared by multiplying
\* both sides with it, turning the comparison when it is negative: the result
\* is that of the code for every location that is not on an edge.
edgeIntersects(lat, lng, xi, yi, xj, yj) ==
    /\ (yi > lat) # (yj > lat)
    /\ IF yj - yi > 0
         THEN (lng - xi) * (yj - yi) < (xj - xi) * (lat - yi)
         ELSE (lng - xi) * (yj - yi) > (xj - xi) * (lat - yi)

\* a boundary check that lets every location through
isPointInPolygonAlways(lat, lng, poly) ==
    TRUE

\* ray casting: inside is flipped once for every edge that intersects
isPointInPolygon(lat, lng, poly) ==
    Cardinality({i \in 1..Len(poly) :
        edgeIntersects(lat, lng,
                       poly[i][2], poly[i][1],
                       poly[IF i = 1 THEN Len(poly) ELSE i - 1][2],
                       poly[IF i = 1 THEN Len(poly) ELSE i - 1][1])}) % 2 = 1

\* the input schema of analyzeLocation: both bounds are inclusive
InputSchema(input) ==
    /\ input.latitude >= 695
    /\ input.latitude <= 725
    /\ input.longitude >= 12535
    /\ input.longitude <= 12567

\* Locations on the mainland: the city centre, two points of the urban area
\* east and west of it, and a point of the highlands.
InsideLocations ==
    {Location(707, 12561), Location(707, 12563), Location(707, 12557),
     Location(711, 12550)}

\* Locations off the mainland: south and east of the schema's rectangle, and
\* two points of the rectangle that the polygon leaves out.
OutsideLocations ==
    {Location(690, 12550), Location(707, 12570), Location(720, 12540),
     Location(696, 12560)}

Locations == InsideLocations \cup OutsideLocations

----------------------------------------------------------------------------
(* GeoFactor *)

\* The values lo + Math.random() * (hi - lo) is made to take: the lowest, the
\* middle and the highest whole number of [lo, hi).
Draws(lo, hi) == {lo, (lo + hi) \div 2, hi - 1}

\* the square of the distance between a location and a point, in hundredths
\* of a degree
squaredDistance(location, lat, lon) ==
    (location.latitude - lat) * (location.latitude - lat)
        + (location.longitude - lon) * (location.longitude - lon)

\* calculateDistanceFromCoast, squared: the distance in km is 111 / Deg times
\* the root of this number
calculateDistanceFromCoast(location) ==
    squaredDistance(location, 707, 12561)

\* the square of distanceFromCoast * 50, rounded down: 50 / Deg is 1 / 2
elevationSquared(location) ==
    (calculateDistanceFromCoast(location) * 111 * 111) \div (2 * 2)

\* getElevation in whole metres: distanceFromCoast * 50 brought between 0 and
\* 500; every comparison of an elevation is "< whole number", which the
\* rounding down keeps
getElevation(location) ==
    IF elevationSquared(location) >= 500 * 500 THEN 500
    ELSE CHOOSE e \in 0..499 :
            /\ e * e <= elevationSquared(location)
            /\ (e + 1) * (e + 1) > elevationSquared(location)

\* getSlope with a coastal band that reaches past 5
getSlopeOverlapping(location) ==
    IF getElevation(location) < 50 THEN Draws(0, 8)
    ELSE IF getElevation(location) < 200 THEN Draws(5, 20)
    ELSE Draws(20, 50)

\* getSlope: the values one call can return
getSlope(location) ==
    IF getElevation(location) < 50 THEN Draws(0, 5)
    ELSE IF getElevation(location) < 200 THEN Draws(5, 20)
    ELSE Draws(20, 50)

getAspect == Draws(0, 360)

\* getProfileCurvature: it calls getSlope itself, a draw of its own
getProfileCurvature(location) ==
    UNION {IF slope < 5 THEN Draws(-5, -2) ELSE Draws(-3, 3) :
           slope \in getSlope(location)}

isInKnownFloodArea(location) ==
    \E area \in {<<706, 12561>>, <<705, 12559>>, <<708, 12562>>} :
        squaredDistance(location, area[1], area[2]) < 2 * 2

isInUrbanArea(location) ==
    squaredDistance(location, 707, 12561) < 5 * 5

getDistanceToRiver(location) ==
    IF isInKnownFloodArea(location) THEN Draws(0, 100)
    ELSE Draws(100, 2100)

getRegionalRainfall(location) ==
    {(IF location.longitude > 12560 THEN 2200 ELSE 1800) + swing :
        swing \in Draws(-200, 200)}

getLandUseClass(location) ==
    IF isInUrbanArea(location) THEN "Urban Built-Up"
    ELSE IF getElevation(location) < 100 THEN "Agricultural Land"
    ELSE IF getElevation(location) < 300 THEN "Mixed Vegetation"
    ELSE "Forest"

\* getLithology with the clamp value counted to the band below
getLithologyInclusive(location) ==
    IF getElevation(location) < 50 THEN "Alluvial Deposits"
    ELSE IF getElevation(location) < 200 THEN "Sedimentary Rock"
    ELSE IF getElevation(location) <= 500 THEN "Volcanic Rock"
    ELSE "Metamorphic Rock"

getLithology(location) ==
    IF getElevation(location) < 50 THEN "Alluvial Deposits"
    ELSE IF getElevation(location) < 200 THEN "Sedimentary Rock"
    ELSE IF getElevation(location) < 500 THEN "Volcanic Rock"
    ELSE "Metamorphic Rock"

\* extractFactors up to its await: the six fields that are evaluated before
\* the method yields, for every outcome of the random draws
extractFactorsBegin(location) ==
    [elevation : {getElevation(location)},
     slope : getSlope(location),
     aspect : getAspect,
     profileCurvature : getProfileCurvature(location),
     distanceToRiver : getDistanceToRiver(location),
     rainfall : getRegionalRainfall(location)]

\* extractFactors after its await: the two remaining fields are evaluated
\* and the FactorSet is complete
extractFactorsEnd(location, drawn) ==
    [elevation |-> drawn.elevation,
     slope |-> drawn.slope,
     aspect |-> drawn.aspect,
     profileCurvature |-> drawn.profileCurvature,
     distanceToRiver |-> drawn.distanceToRiver,
     rainfall |-> drawn.rainfall,
     landUseClass |-> getLandUseClass(location),
     lithology |-> getLithology(location)]

----------------------------------------------------------------------------
(* State *)

VARIABLES
    rfModel,      \* EnsemblePredictor.rfModel: [trained, trainingData]
    xgbModel,     \* EnsemblePredictor.xgbModel: [trained, trainingData]
    trained,      \* EnsemblePredictor.trained
    rfWeight,     \* EnsemblePredictor.rfWeight
    xgbWeight,    \* EnsemblePredictor.xgbWeight
    callFactors,  \* the FactorSet the caller passes
    last,         \* the last call made from outside and what it returned
    baselineRF,   \* a RandomForestModel of its own: [trained, trainingData]
    xgbScorer,    \* an XGBoostModel of its own: [trained, trainingData]
    requests,     \* the analyzeLocation requests being served
    callers,      \* the predict calls in progress on the combiner
    tree,         \* the last call of singleTreePredict and what it returned
    boost,        \* the boosting loop of XGBoostModel.predict: round, prediction
    mock         \* the last request to the prototype analyzeLocation and its response

vars == <<rfModel, xgbModel, trained, rfWeight, xgbWeight, callFactors, last,
          baselineRF, xgbScorer, requests, callers, tree,
          boost,
          mock>>

\* the fields of the combiner, as variables
combinerVars == <<rfModel, xgbModel, trained, rfWeight, xgbWeight>>

\* the two scorers that stand outside the combiner
scorerVars == <<baselineRF, xgbScorer>>

\* what no operation of the combiner touches
besideCombiner == <<baselineRF, xgbScorer, requests, callers, tree,
                     boost,
                     mock>>

\* what no operation of a scorer used on its own touches
besideScorers == <<rfModel, xgbModel, trained, rfWeight, xgbWeight, requests,
                   callers, tree,
                    boost,
                    mock>>

\* what no step of analyzeLocation touches
besideRouter == <<baselineRF, xgbScorer, callers, tree,
                   boost,
                   mock>>

\* the fields of the combiner
Self == [rfModel |-> rfModel, xgbModel |-> xgbModel, trained |-> trained,
         rfWeight |-> rfWeight, xgbWeight |-> xgbWeight]

\* BaseModel at construction
NewModel == [trained |-> FALSE, trainingData |-> <<>>]

\* a combiner constructed with weights 0.45 and 0.5
NewEnsembleWeightSlip ==
    [rfModel |-> [trained |-> FALSE, trainingData |-> <<>>],
     xgbModel |-> [trained |-> FALSE, trainingData |-> <<>>],
     trained |-> FALSE,
     rfWeight |-> 45 * Hundredth, xgbWeight |-> 50 * Hundredth]

\* EnsemblePredictor at construction
NewEnsemble ==
    [rfModel |-> NewModel, xgbModel |-> NewModel, trained |-> FALSE,
     rfWeight |-> 45 * Hundredth, xgbWeight |-> 55 * Hundredth]

NoCall == [op |-> "none", threw |-> FALSE, ret |-> <<>>, sub |-> <<>>,
           bootstrapped |-> FALSE]

\* a freshly constructed combiner
Constructed ==
    /\ rfModel = NewEnsemble.rfModel
    /\ xgbModel = NewEnsemble.xgbModel
    /\ trained = NewEnsemble.trained
    /\ rfWeight = NewEnsemble.rfWeight
    /\ xgbWeight = NewEnsemble.xgbWeight

\* the number of requests that are served at once
NumRequests == 2

Requests == 1..NumRequests

\* no request has been received: pc is the handler's position, drawn holds
\* the fields of the FactorSet evaluated so far, calls lists the functions the
\* handler has called
NoRequest == [pc |-> "idle", location |-> <<>>, drawn |-> <<>>,
              factors |-> <<>>, response |-> <<>>, threw |-> FALSE,
              calls |-> <<>>]

NoRequests == [r \in Requests |-> NoRequest]

\* the number of predict calls that run against each other
NumCallers == 2

Callers == 1..NumCallers

\* the FactorSets the callers pass
CallerFactors == {HighRisk, LowRisk}

\* a caller that has not called yet: pc is its position in predict
NoCaller == [pc |-> "idle", op |-> "none", data |-> <<>>, factors |-> <<>>,
             bootstrapped |-> FALSE, rfPrediction |-> <<>>, threw |-> FALSE,
             ret |-> <<>>]

NoCallers == [p \in Callers |-> NoCaller]

\* singleTreePredict has not been called
NoTree == [op |-> "none", treeIndex |-> 0, score |-> 0, weight |-> 0,
           vote |-> 0]

\* the boosting loop has not been entered
NoBoost == [op |-> "none", round |-> 0, prediction |-> 0, gradient |-> 0,
            stepped |-> 0]

\* the prototype handler has not been called
NoMock == [op |-> "none", location |-> Location(0, 0), threw |-> FALSE,
           baselineRF |-> [probability |-> 0, confidence |-> 0,
                           riskLevel |-> "none"],
           prediction |-> [probability |-> 0, confidence |-> 0,
                           riskLevel |-> "none"]]

\* the scorers outside the combiner, freshly constructed
ScorersConstructed ==
    /\ baselineRF = NewModel
    /\ xgbScorer = NewModel

Init ==
    /\ Constructed
    /\ ScorersConstructed
    /\ requests = NoRequests
    /\ callers = NoCallers
    /\ tree = NoTree
    /\ boost = NoBoost
    /\ mock = NoMock
    /\ callFactors \in SampleFactors
    /\ last = NoCall

InitSweep ==
    /\ Constructed
    /\ ScorersConstructed
    /\ requests = NoRequests
    /\ callers = NoCallers
    /\ tree = NoTree
    /\ boost = NoBoost
    /\ mock = NoMock
    /\ callFactors \in SweepFactors
    /\ last = NoCall

InitScorers ==
    /\ Constructed
    /\ ScorersConstructed
    /\ requests = NoRequests
    /\ callers = NoCallers
    /\ tree = NoTree
    /\ boost = NoBoost
    /\ mock = NoMock
    /\ callFactors \in BaseFactors
    /\ last = NoCall

----------------------------------------------------------------------------
(* Methods *)

\* BaseModel.train that sets the flag only for a non-empty training set
BaseModelTrainNonEmpty(self, trainingData) ==
    [self EXCEPT !.trainingData = trainingData,
                 !.trained = (trainingData # <<>>)]

BaseModelTrain(self, trainingData) ==
    [self EXCEPT !.trainingData = trainingData, !.trained = TRUE]

validateTrainingData(data) == data

\* RandomForestModel.predict without the check of the trained flag
RandomForestPredictUnguarded(self, factors) ==
    <<RFScore(factors)>>

\* RandomForestModel.predict: <<>> stands for the thrown Error
RandomForestPredict(self, factors) ==
    IF ~self.trained THEN <<>> ELSE <<RFScore(factors)>>

\* XGBoostModel.predict that answers 0.5 when it was trained with no points
XGBoostPredictFromData(self, factors) ==
    IF ~self.trained THEN <<>>
    ELSE IF self.trainingData = <<>>
      THEN <<[XGBScore(factors) EXCEPT !.probability = 5 * Tenth]>>
    ELSE <<XGBScore(factors)>>

\* XGBoostModel.predict: <<>> stands for the thrown Error
XGBoostPredict(self, factors) ==
    IF ~self.trained THEN <<>> ELSE <<XGBScore(factors)>>

\* trainWithSyntheticData: 50 flooded points followed by 50 unflooded points
SyntheticData ==
    [k \in 1..100 |-> [flooded |-> k <= 50]]

\* EnsemblePredictor.train without the assignment to this.trained
EnsembleTrainFlagUnset(self, trainingData) ==
    [self EXCEPT
        !.rfModel = BaseModelTrain(self.rfModel,
                                   validateTrainingData(trainingData)),
        !.xgbModel = BaseModelTrain(self.xgbModel,
                                    validateTrainingData(trainingData))]

\* EnsemblePredictor.train without the training of xgbModel
EnsembleTrainRfOnly(self, trainingData) ==
    [self EXCEPT
        !.rfModel = BaseModelTrain(self.rfModel,
                                   validateTrainingData(trainingData)),
        !.trained = TRUE]

\* EnsemblePredictor.train: the combiner after this.train(trainingData)
EnsembleTrain(self, trainingData) ==
    [self EXCEPT
        !.rfModel = BaseModelTrain(self.rfModel,
                                   validateTrainingData(trainingData)),
        !.xgbModel = BaseModelTrain(self.xgbModel,
                                    validateTrainingData(trainingData)),
        !.trained = TRUE]

\* a bootstrap at the head of every predict
AfterBootstrapAlways(self) ==
    EnsembleTrain(self, SyntheticData)

\* the combiner after the lazy bootstrap at the head of predict
AfterBootstrap(self) ==
    IF ~self.trained THEN EnsembleTrain(self, SyntheticData) ELSE self

\* what EnsemblePredictor.predict returns or throws, given what the two
\* sub-scorers returned or threw
PredictCall(self, rfPrediction, xgbPrediction, bootstrap) ==
    [op |-> "predict",
     threw |-> rfPrediction = <<>> \/ xgbPrediction = <<>>,
     ret |-> IF rfPrediction = <<>> \/ xgbPrediction = <<>> THEN <<>>
             ELSE <<Stack(rfPrediction[1], xgbPrediction[1],
                          self.rfWeight, self.xgbWeight)>>,
     sub |-> rfPrediction \o xgbPrediction,
     bootstrapped |-> bootstrap]

\* EnsemblePredictor.predict as a function of the combiner: the combiner it
\* leaves and the record of the call
EnsemblePredict(self, factors) ==
    [after |-> AfterBootstrap(self),
     call |-> PredictCall(
                  self,
                  RandomForestPredict(AfterBootstrap(self).rfModel, factors),
                  XGBoostPredict(AfterBootstrap(self).xgbModel, factors),
                  ~self.trained)]

----------------------------------------------------------------------------
(* Operations of the combiner *)

\* the combiner's fields become those of self
Becomes(self) ==
    /\ rfModel' = self.rfModel
    /\ xgbModel' = self.xgbModel
    /\ trained' = self.trained
    /\ rfWeight' = self.rfWeight
    /\ xgbWeight' = self.xgbWeight

Train(trainingData) ==
    /\ Becomes(EnsembleTrain(Self, trainingData))
    /\ last' = [NoCall EXCEPT !.op = "train"]
    /\ UNCHANGED callFactors
    /\ UNCHANGED besideCombiner

Predict(factors) ==
    \E done \in {EnsemblePredict(Self, factors)} :
        /\ Becomes(done.after)
        /\ callFactors' = factors
        /\ last' = done.call
        /\ UNCHANGED besideCombiner

AnalyzeFactors(factors) ==
    /\ callFactors' = factors
    /\ last' = [NoCall EXCEPT !.op = "analyzeFactors",
                              !.ret = <<analyzeFactors(factors)>>]
    /\ UNCHANGED combinerVars
    /\ UNCHANGED besideCombiner

IsTrained ==
    /\ last' = [NoCall EXCEPT !.op = "isTrained", !.ret = <<trained>>]
    /\ UNCHANGED combinerVars
    /\ UNCHANGED callFactors
    /\ UNCHANGED besideCombiner

\* a getModelInfo that prepares the combiner before it answers
GetModelInfoPreparing ==
    /\ Becomes(AfterBootstrap(Self))
    /\ last' = [NoCall EXCEPT
                   !.op = "getModelInfo",
                   !.ret = <<[modelType |->
                                  "Ensemble (Random Forest + XGBoost)",
                              algorithm |-> "Stacking",
                              trained |-> TRUE,
                              factorsUsed |-> 8]>>]
    /\ UNCHANGED callFactors
    /\ UNCHANGED besideCombiner

\* the getModelInfo query of the router on the shared combiner
GetModelInfo ==
    /\ last' = [NoCall EXCEPT
                   !.op = "getModelInfo",
                   !.ret = <<[modelType |->
                                  "Ensemble (Random Forest + XGBoost)",
                              algorithm |-> "Stacking",
                              trained |-> trained,
                              factorsUsed |-> 8]>>]
    /\ UNCHANGED combinerVars
    /\ UNCHANGED callFactors
    /\ UNCHANGED besideCombiner

Next ==
    \/ \E trainingData \in TrainingInputs : Train(trainingData)
    \/ \E factors \in SampleFactors : Predict(factors)
    \/ \E factors \in SampleFactors : AnalyzeFactors(factors)
    \/ IsTrained
    \/ GetModelInfo

Spec == Init /\ [][Next]_vars

\* every call is made with the one FactorSet chosen at the start
NextSweep ==
    \/ Predict(callFactors)
    \/ AnalyzeFactors(callFactors)

SpecSweep == InitSweep /\ [][NextSweep]_vars

----------------------------------------------------------------------------
(* Operations of a scorer used on its own *)

\* baselineRF.train(trainingData)
RFTrain(trainingData) ==
    /\ baselineRF' = BaseModelTrain(baselineRF, trainingData)
    /\ last' = [NoCall EXCEPT !.op = "rf.train"]
    /\ UNCHANGED <<besideScorers, callFactors, xgbScorer>>

\* baselineRF.predict(factors)
RFPredict(factors) ==
    \E got \in {RandomForestPredict(baselineRF, factors)} :
        /\ callFactors' = factors
        /\ last' = [NoCall EXCEPT !.op = "rf.predict",
                                  !.threw = (got = <<>>),
                                  !.ret = got]
        /\ UNCHANGED <<besideScorers, scorerVars>>

\* xgbScorer.train(trainingData)
XGBTrain(trainingData) ==
    /\ xgbScorer' = BaseModelTrain(xgbScorer, trainingData)
    /\ last' = [NoCall EXCEPT !.op = "xgb.train"]
    /\ UNCHANGED <<besideScorers, callFactors, baselineRF>>

\* xgbScorer.predict(factors)
XGBPredict(factors) ==
    \E got \in {XGBoostPredict(xgbScorer, factors)} :
        /\ callFactors' = factors
        /\ last' = [NoCall EXCEPT !.op = "xgb.predict",
                                  !.threw = (got = <<>>),
                                  !.ret = got]
        /\ UNCHANGED <<besideScorers, scorerVars>>

NextScorers ==
    \/ \E trainingData \in TrainingInputs : RFTrain(trainingData)
    \/ \E factors \in BaseFactors : RFPredict(factors)
    \/ \E trainingData \in TrainingInputs : XGBTrain(trainingData)
    \/ \E factors \in BaseFactors : XGBPredict(factors)

SpecScorers == InitScorers /\ [][NextScorers]_vars

----------------------------------------------------------------------------
(* singleTreePredict, as predict calls it for each tree *)

InitTree ==
    /\ Constructed
    /\ ScorersConstructed
    /\ requests = NoRequests
    /\ callers = NoCallers
    /\ tree = NoTree
    /\ boost = NoBoost
    /\ mock = NoMock
    /\ callFactors \in SampleFactors
    /\ last = NoCall

\* this.singleTreePredict(factors, treeIndex): score and weight are the
\* values of the two locals at the return
SingleTreePredict(factors, treeIndex) ==
    /\ tree' = [op |-> "singleTreePredict",
                treeIndex |-> treeIndex,
                score |-> treeScore(factors, treeIndex),
                weight |-> treeWeight(treeIndex),
                vote |-> singleTreePredict(factors, treeIndex)]
    /\ UNCHANGED <<combinerVars, callFactors, last, scorerVars, requests,
                   callers, boost, mock>>

NextTree ==
    \E treeIndex \in 0..(numTrees - 1) :
        SingleTreePredict(callFactors, treeIndex)

SpecTree == InitTree /\ [][NextTree]_vars

----------------------------------------------------------------------------
(* the prototype analyzeLocation, which answers with simulated values *)

\* z.number().min(6.8).max(7.5), z.number().min(125.2).max(125.8)
MockInputSchema(input) ==
    /\ input.latitude >= 680
    /\ input.latitude <= 750
    /\ input.longitude >= 12520
    /\ input.longitude <= 12580

\* the banding written out in the handler
mockRiskLevel(probability) ==
    IF probability < 30 * Hundredth THEN "Low"
    ELSE IF probability < 50 * Hundredth THEN "Moderate"
    ELSE IF probability < 70 * Hundredth THEN "High"
    ELSE "Very High"

\* the values Math.random() returns, in hundredths: every twentieth
RandomDraws == {5 * k : k \in 0..19}

\* fewer values for the draw that ensembleProb adds and for the draws of
\* the confidences
EnsembleDraws == {0, 50, 95}

ConfidenceDraws == {0, 50}

InitMock ==
    /\ Constructed
    /\ ScorersConstructed
    /\ requests = NoRequests
    /\ callers = NoCallers
    /\ tree = NoTree
    /\ boost = NoBoost
    /\ mock = NoMock
    /\ callFactors = HighRisk
    /\ last = NoCall

\* what the prototype handler does not touch
besideMock == <<combinerVars, callFactors, last, scorerVars, requests,
                callers, tree, boost>>

\* analyzeLocation of the prototype: the polygon guard, then the two
\* predictions from Math.random(); u, v are the draws of the probabilities
\* and c, d those of the confidences
MockAnalyzeLocation(input, u, v, c, d) ==
    /\ MockInputSchema(input)
    /\ IF ~isPointInPolygon(input.latitude, input.longitude,
                            DAVAO_MAINLAND_POLYGON)
       THEN mock' = [NoMock EXCEPT !.op = "analyzeLocation",
                                   !.location = input, !.threw = TRUE]
       ELSE \E baselineProb \in {35 * Hundredth
                                    + Mul(u * Hundredth, 40 * Hundredth)} :
            \E ensembleProb \in {baselineProb + 3 * Hundredth
                                    + Mul(v * Hundredth, 5 * Hundredth)} :
              mock' = [op |-> "analyzeLocation",
                       location |-> input,
                       threw |-> FALSE,
                       baselineRF |->
                           [probability |-> baselineProb,
                            confidence |->
                                72 * Hundredth
                                + Mul(c * Hundredth, 13 * Hundredth),
                            riskLevel |-> mockRiskLevel(baselineProb)],
                       prediction |->
                           [probability |->
                                Min(95 * Hundredth, ensembleProb),
                            confidence |->
                                80 * Hundredth
                                + Mul(d * Hundredth, 12 * Hundredth),
                            riskLevel |-> mockRiskLevel(ensembleProb)]]
    /\ UNCHANGED besideMock

NextMock ==
    \E input \in Locations : \E u \in RandomDraws : \E v \in EnsembleDraws :
    \E c, d \in ConfidenceDraws :
        MockAnalyzeLocation(input, u, v, c, d)

SpecMock == InitMock /\ [][NextMock]_vars

----------------------------------------------------------------------------
(* the boosting loop of XGBoostModel.predict, round by round *)

InitBoost ==
    /\ Constructed
    /\ ScorersConstructed
    /\ requests = NoRequests
    /\ callers = NoCallers
    /\ tree = NoTree
    /\ boost = NoBoost
    /\ mock = NoMock
    /\ callFactors \in SweepFactors
    /\ last = NoCall

\* what the boosting loop does not touch
besideBoost == <<combinerVars, callFactors, last, scorerVars, requests,
                 callers, tree, mock>>

\* let prediction = 0.5
BoostStart ==
    /\ boost.op = "none"
    /\ boost' = [op |-> "loop", round |-> 0, prediction |-> 5 * Tenth,
                 gradient |-> 0, stepped |-> 5 * Tenth]
    /\ UNCHANGED besideBoost

\* one turn of the loop: gradient is what calculateGradient returned and
\* stepped the prediction before it is clamped
BoostRound(factors) ==
    /\ boost.op = "loop"
    /\ boost.round < numRounds
    /\ \E gradient \in {calculateGradient(factors, boost.prediction,
                                           boost.round)} :
          boost' = [op |-> "loop",
                    round |-> boost.round + 1,
                    prediction |->
                        Max(0, Min(Unit, boost.prediction
                                             + Mul(learningRate, gradient))),
                    gradient |-> gradient,
                    stepped |-> boost.prediction
                                    + Mul(learningRate, gradient)]
    /\ UNCHANGED besideBoost

\* the loop is left and predict returns probability: prediction
BoostReturn ==
    /\ boost.op = "loop"
    /\ boost.round >= numRounds
    /\ boost' = [boost EXCEPT !.op = "returned"]
    /\ UNCHANGED besideBoost

NextBoost ==
    \/ BoostStart
    \/ BoostRound(callFactors)
    \/ BoostReturn

SpecBoost == InitBoost /\ [][NextBoost]_vars

----------------------------------------------------------------------------
(* predict, statement by statement, called by several callers at once *)

\* the statements of predict, with train where trainWithSyntheticData calls
\* it, and a flag that is set before the sub-scorers are trained
predictStepsFlagFirst ==
    <<"check", "setTrained", "rfTrain", "xgbTrain", "rfPredict",
      "xgbPredict", "done">>

\* the statements of predict in their order, with those of train where
\* trainWithSyntheticData calls it
predictSteps ==
    <<"check", "rfTrain", "xgbTrain", "setTrained", "rfPredict",
      "xgbPredict", "done">>

\* the statement that follows pc
after(pc) ==
    predictSteps[(CHOOSE k \in 1..Len(predictSteps) : predictSteps[k] = pc)
                 + 1]

InitRace ==
    /\ Constructed
    /\ ScorersConstructed
    /\ requests = NoRequests
    /\ callers = NoCallers
    /\ tree = NoTree
    /\ boost = NoBoost
    /\ mock = NoMock
    /\ callFactors = HighRisk
    /\ last = NoCall

\* what no statement of predict touches
besideCallers == <<rfWeight, xgbWeight, callFactors, last, baselineRF,
                   xgbScorer, requests, tree,
                    boost,
                    mock>>

\* p calls predict(factors): if (!this.trained)
CallPredict(p, factors) ==
    /\ callers[p].pc = "idle"
    /\ callers' = [callers EXCEPT
                      ![p].pc = IF trained THEN "rfPredict"
                                ELSE after("check"),
                      ![p].op = "predict",
                      ![p].data = IF trained THEN <<>>
                                  ELSE <<SyntheticData>>,
                      ![p].factors = <<factors>>,
                      ![p].bootstrapped = ~trained]
    /\ UNCHANGED <<rfModel, xgbModel, trained, besideCallers>>

\* this.rfModel.train(validatedData)
TrainRf(p) ==
    /\ callers[p].pc = "rfTrain"
    /\ rfModel' = BaseModelTrain(rfModel,
                                 validateTrainingData(callers[p].data[1]))
    /\ callers' = [callers EXCEPT ![p].pc = after("rfTrain")]
    /\ UNCHANGED <<xgbModel, trained, besideCallers>>

\* this.xgbModel.train(validatedData)
TrainXgb(p) ==
    /\ callers[p].pc = "xgbTrain"
    /\ xgbModel' = BaseModelTrain(xgbModel,
                                  validateTrainingData(callers[p].data[1]))
    /\ callers' = [callers EXCEPT ![p].pc = after("xgbTrain")]
    /\ UNCHANGED <<rfModel, trained, besideCallers>>

\* this.trained = true
SetTrained(p) ==
    /\ callers[p].pc = "setTrained"
    /\ trained' = TRUE
    /\ callers' = [callers EXCEPT
                      ![p].pc = IF callers[p].op = "train" THEN "done"
                                ELSE after("setTrained")]
    /\ UNCHANGED <<rfModel, xgbModel, besideCallers>>

\* const rfPrediction = this.rfModel.predict(factors)
PredictRf(p) ==
    /\ callers[p].pc = "rfPredict"
    /\ \E got \in {RandomForestPredict(rfModel, callers[p].factors[1])} :
          callers' = [callers EXCEPT
                         ![p].pc = IF got = <<>> THEN "done"
                                   ELSE after("rfPredict"),
                         ![p].threw = (got = <<>>),
                         ![p].rfPrediction = got]
    /\ UNCHANGED <<rfModel, xgbModel, trained, besideCallers>>

\* const xgbPrediction = this.xgbModel.predict(factors), and the rest of
\* predict, which reads nothing but the two predictions and the weights
PredictXgb(p) ==
    /\ callers[p].pc = "xgbPredict"
    /\ \E got \in {XGBoostPredict(xgbModel, callers[p].factors[1])} :
          \E call \in {PredictCall(Self, callers[p].rfPrediction, got,
                                   callers[p].bootstrapped)} :
              callers' = [callers EXCEPT
                             ![p].pc = "done",
                             ![p].threw = call.threw,
                             ![p].ret = call.ret]
    /\ UNCHANGED <<rfModel, xgbModel, trained, besideCallers>>

NextRace ==
    \/ \E p \in Callers, factors \in CallerFactors : CallPredict(p, factors)
    \/ \E p \in Callers : TrainRf(p)
    \/ \E p \in Callers : TrainXgb(p)
    \/ \E p \in Callers : SetTrained(p)
    \/ \E p \in Callers : PredictRf(p)
    \/ \E p \in Callers : PredictXgb(p)

SpecRace == InitRace /\ [][NextRace]_vars

----------------------------------------------------------------------------
(* train and predict, statement by statement, one call after the other *)

\* p calls train(trainingData): the statements of train follow
CallTrain(p, trainingData) ==
    /\ callers[p].pc = "idle"
    /\ callers' = [callers EXCEPT
                      ![p].pc = after("check"),
                      ![p].op = "train",
                      ![p].data = <<trainingData>>]
    /\ UNCHANGED <<rfModel, xgbModel, trained, besideCallers>>

\* the call of p has returned or thrown, and p may call again
Return(p) ==
    /\ callers[p].pc = "done"
    /\ callers' = [callers EXCEPT ![p] = NoCaller]
    /\ UNCHANGED <<rfModel, xgbModel, trained, besideCallers>>

NextSteps ==
    \/ \E trainingData \in TrainingInputs : CallTrain(1, trainingData)
    \/ \E factors \in CallerFactors : CallPredict(1, factors)
    \/ TrainRf(1)
    \/ TrainXgb(1)
    \/ SetTrained(1)
    \/ PredictRf(1)
    \/ PredictXgb(1)
    \/ Return(1)

SpecSteps == InitRace /\ [][NextSteps]_vars

----------------------------------------------------------------------------
(* analyzeLocation *)

InitRouter ==
    /\ Constructed
    /\ ScorersConstructed
    /\ requests = NoRequests
    /\ callers = NoCallers
    /\ tree = NoTree
    /\ boost = NoBoost
    /\ mock = NoMock
    /\ callFactors = HighRisk
    /\ last = NoCall

\* the FactorSet of request r that is handed to predict and analyzeFactors,
\* were it kept in one place for all requests
factorsOfAny(reqs, r) ==
    reqs[CHOOSE q \in Requests : reqs[q].factors # <<>>].factors[1]

\* const factors of the handler of request r
factorsOf(reqs, r) ==
    reqs[r].factors[1]

\* Request r arrives and its handler runs up to the await inside
\* extractFactors: the input schema rejects the input before the handler is
\* entered, the handler throws for a location outside the polygon, and
\* otherwise creates the GeoFactor and calls extractFactors, whose random
\* draws come out as one of draws.
AnalyzeLocation(r, input, draws) ==
    /\ requests[r].pc = "idle"
    /\ IF ~InputSchema(input)
         THEN requests' = [requests EXCEPT
                             ![r] = [NoRequest EXCEPT
                                        !.pc = "failed",
                                        !.location = <<input>>,
                                        !.threw = TRUE]]
       ELSE IF ~isPointInPolygon(input.latitude, input.longitude,
                                 DAVAO_MAINLAND_POLYGON)
         THEN requests' = [requests EXCEPT
                             ![r] = [NoRequest EXCEPT
                                        !.pc = "failed",
                                        !.location = <<input>>,
                                        !.threw = TRUE,
                                        !.calls = <<"isPointInPolygon">>]]
       ELSE \E drawn \in draws :
                requests' = [requests EXCEPT
                                ![r] = [NoRequest EXCEPT
                                           !.pc = "awaitRainfall",
                                           !.location = <<input>>,
                                           !.drawn = <<drawn>>,
                                           !.calls = <<"isPointInPolygon",
                                                       "extractFactors">>]]
    /\ UNCHANGED <<combinerVars, callFactors, last, besideRouter>>

\* extractFactors of request r resumes after its await and returns the
\* FactorSet
ExtractFactorsResume(r) ==
    /\ requests[r].pc = "awaitRainfall"
    /\ requests' = [requests EXCEPT
                       ![r].pc = "awaitFactors",
                       ![r].factors =
                           <<extractFactorsEnd(requests[r].location[1],
                                               requests[r].drawn[1])>>]
    /\ UNCHANGED <<combinerVars, callFactors, last, besideRouter>>

\* the handler of request r resumes after its await: predict,
\* analyzeFactors, return
AnalyzeLocationResume(r) ==
    /\ requests[r].pc = "awaitFactors"
    /\ \E done \in {EnsemblePredict(Self, factorsOf(requests, r))} :
          /\ Becomes(done.after)
          /\ IF done.call.threw
               THEN requests' = [requests EXCEPT
                                   ![r].pc = "failed",
                                   ![r].threw = TRUE,
                                   ![r].calls = @ \o <<"predict">>]
             ELSE requests' = [requests EXCEPT
                      ![r].pc = "responded",
                      ![r].calls = @ \o <<"predict", "analyzeFactors">>,
                      ![r].response =
                         <<[location |-> requests[r].location[1],
                            factors |-> factorsOf(requests, r),
                            prediction |-> done.call.ret[1],
                            factorImportance |->
                                analyzeFactors(factorsOf(requests, r))]>>]
    /\ UNCHANGED <<callFactors, last, besideRouter>>

\* the response or the error of request r has gone back to the client
RequestDone(r) ==
    /\ requests[r].pc \in {"failed", "responded"}
    /\ requests' = [requests EXCEPT ![r] = NoRequest]
    /\ UNCHANGED <<combinerVars, callFactors, last, besideRouter>>

\* one request at a time, with every outcome of the draws
NextRouter ==
    \/ \E input \in Locations :
          AnalyzeLocation(1, input, extractFactorsBegin(input))
    \/ ExtractFactorsResume(1)
    \/ AnalyzeLocationResume(1)
    \/ RequestDone(1)

SpecRouter == InitRouter /\ [][NextRouter]_vars

----------------------------------------------------------------------------
(* extractFactors called on a GeoFactor of any location *)

\* the locations around the reference point of the coast, a hundredth of a
\* degree apart, and two far from it
GeoLocations ==
    {Location(lat, lon) : lat \in 702..712, lon \in 12556..12566}
        \cup {Location(400, 12400), Location(950, 12800)}

InitGeo ==
    /\ Constructed
    /\ ScorersConstructed
    /\ requests = NoRequests
    /\ callers = NoCallers
    /\ tree = NoTree
    /\ boost = NoBoost
    /\ mock = NoMock
    /\ callFactors = HighRisk
    /\ last = NoCall

\* new GeoFactor(location).extractFactors() up to its await, the random
\* draws coming out as one of draws
ExtractFactors(r, location, draws) ==
    /\ requests[r].pc = "idle"
    /\ \E drawn \in draws :
          requests' = [requests EXCEPT
                          ![r] = [NoRequest EXCEPT
                                     !.pc = "awaitRainfall",
                                     !.location = <<location>>,
                                     !.drawn = <<drawn>>,
                                     !.calls = <<"extractFactors">>]]
    /\ UNCHANGED <<combinerVars, callFactors, last, besideRouter>>

\* the caller has taken the FactorSet
FactorsTaken(r) ==
    /\ requests[r].pc = "awaitFactors"
    /\ requests' = [requests EXCEPT ![r] = NoRequest]
    /\ UNCHANGED <<combinerVars, callFactors, last, besideRouter>>

NextGeo ==
    \/ \E location \in GeoLocations :
          ExtractFactors(1, location, extractFactorsBegin(location))
    \/ ExtractFactorsResume(1)
    \/ FactorsTaken(1)

SpecGeo == InitGeo /\ [][NextGeo]_vars

\* the locations of the requests that are served at once: the city centre,
\* the highlands and a point off the mainland
ConcurrentLocations ==
    {Location(707, 12561), Location(711, 12550), Location(720, 12540)}

Lowest(S) == CHOOSE x \in S : \A y \in S : x <= y

Highest(S) == CHOOSE x \in S : \A y \in S : x >= y

\* of the outcomes of the draws of extractFactors, the one where every draw
\* comes out lowest and the one where every draw comes out highest
SampledDraws(location) ==
    {[elevation |-> getElevation(location),
      slope |-> Lowest(getSlope(location)),
      aspect |-> Lowest(getAspect),
      profileCurvature |-> Lowest(getProfileCurvature(location)),
      distanceToRiver |-> Lowest(getDistanceToRiver(location)),
      rainfall |-> Lowest(getRegionalRainfall(location))],
     [elevation |-> getElevation(location),
      slope |-> Highest(getSlope(location)),
      aspect |-> Highest(getAspect),
      profileCurvature |-> Highest(getProfileCurvature(location)),
      distanceToRiver |-> Highest(getDistanceToRiver(location)),
      rainfall |-> Highest(getRegionalRainfall(location))]}

\* several requests at once: each of them can be anywhere in its handler
\* when another one takes a step
NextConcurrent ==
    \/ \E r \in Requests, input \in ConcurrentLocations :
          AnalyzeLocation(r, input, SampledDraws(input))
    \/ \E r \in Requests : ExtractFactorsResume(r)
    \/ \E r \in Requests : AnalyzeLocationResume(r)
    \/ \E r \in Requests : RequestDone(r)

SpecConcurrent == InitRouter /\ [][NextConcurrent]_vars

----------------------------------------------------------------------------
(* Properties *)

\* the predictions the sub-scorers returned in the last predict call
SubPredictions == {last.sub[k] : k \in 1..Len(last.sub)}

PredictReturned == last.op = "predict" /\ ~last.threw /\ Len(last.ret) = 1

AnalyzeReturned == last.op = "analyzeFactors" /\ Len(last.ret) = 1

\* C1: once trained, RandomForestModel.predict and XGBoostModel.predict
\* return a probability between 0 and 1 for every FactorSet.
C1_ProbabilityInUnitInterval ==
    last.op = "predict" =>
        /\ Len(last.sub) = 2
        /\ \A p \in SubPredictions :
               p.probability >= 0 /\ p.probability <= Unit

C1_Witness ==
    /\ last.op = "predict"
    /\ Len(last.sub) = 2
    /\ last.sub[1].probability < 15 * Hundredth
    /\ last.sub[2].probability < 25 * Hundredth

\* C2: the confidence RandomForestModel.predict returns lies between 0.5
\* and 1 for every FactorSet.
C2_RFConfidenceRange ==
    (last.op = "predict" /\ Len(last.sub) = 2) =>
        /\ last.sub[1].confidence >= 5 * Tenth
        /\ last.sub[1].confidence <= Unit

C2_Witness ==
    /\ last.op = "predict"
    /\ Len(last.sub) = 2
    /\ last.sub[1].confidence > 5 * Tenth
    /\ last.sub[1].confidence < Unit

\* the sequence XGBoostModel.predict records: 0.5 and one value per round
RecordedSequence(factors) == BoostRounds(factors, <<5 * Tenth>>, 0)

MeanAbsoluteStepChange(seq) ==
    RDiv(SumSeq([k \in 1..(Len(seq) - 1) |-> Abs(seq[k + 1] - seq[k])]),
         Len(seq) - 1)

ConvergenceOf(seq) == Unit - Min(Unit, 5 * MeanAbsoluteStepChange(seq))

\* C3: the confidence XGBoostModel.predict returns is
\* min(0.95, 0.7 + 0.25 * convergence), with convergence =
\* 1 - min(1, 5 * mean absolute step change) over the 0.5 followed by one
\* value per round, and so lies between 0.7 and 0.95.
C3_XGBConfidenceFormula ==
    (last.op = "predict" /\ Len(last.sub) = 2) =>
        LET seq == RecordedSequence(callFactors)
        IN /\ Len(seq) = numRounds + 1
           /\ seq[1] = 5 * Tenth
           /\ last.sub[2].confidence =
                  Min(95 * Hundredth,
                      70 * Hundredth + Mul(25 * Hundredth, ConvergenceOf(seq)))
           /\ last.sub[2].confidence >= 70 * Hundredth
           /\ last.sub[2].confidence <= 95 * Hundredth

C3_Witness ==
    /\ last.op = "predict"
    /\ Len(last.sub) = 2
    /\ last.sub[2].confidence > 70 * Hundredth
    /\ last.sub[2].confidence < 93 * Hundredth

\* C4: the probability EnsemblePredictor.predict returns is
\* 0.45 * rfProbability + 0.55 * xgbProbability (to within one unit of the
\* last place), and the rfProbability and xgbProbability it reports are the
\* probabilities the two sub-scorers returned.
C4_WeightedCombination ==
    PredictReturned =>
        LET r == last.ret[1]
        IN /\ r.rfProbability = last.sub[1].probability
           /\ r.xgbProbability = last.sub[2].probability
           /\ Abs(100 * r.probability
                  - (45 * r.rfProbability + 55 * r.xgbProbability)) <= 100

C4_Witness ==
    /\ PredictReturned
    /\ last.ret[1].xgbProbability - last.ret[1].rfProbability > 10 * Hundredth

\* the banding rule
Band(p) ==
    CASE p < 25 * Hundredth -> "Low"
      [] p >= 25 * Hundredth /\ p < 50 * Hundredth -> "Moderate"
      [] p >= 50 * Hundredth /\ p < 75 * Hundredth -> "High"
      [] p >= 75 * Hundredth -> "Very High"

BandExamples == {10, 30, 60, 90, 25, 50, 75}

\* C5: in every prediction of the two scorers and of the combiner the
\* riskLevel is the band of the probability in the same result; 0.10, 0.30,
\* 0.60, 0.90 are Low, Moderate, High, Very High and 0.25, 0.5, 0.75 fall in
\* the upper band.
C5_RiskLevelIsBand ==
    /\ \A p \in SubPredictions : p.riskLevel = Band(p.probability)
    /\ PredictReturned =>
           last.ret[1].riskLevel = Band(last.ret[1].probability)
    /\ \A h \in BandExamples :
           /\ calculateRiskLevel(h * Hundredth) = Band(h * Hundredth)
           /\ ensembleRiskLevel(h * Hundredth) = Band(h * Hundredth)
    /\ Band(25 * Hundredth) = "Moderate"
    /\ Band(50 * Hundredth) = "High"
    /\ Band(75 * Hundredth) = "Very High"

C5_Witness ==
    /\ PredictReturned
    /\ last.ret[1].riskLevel = "Very High"
    /\ last.sub[1].riskLevel = "High"

ChecklistOrder ==
    <<"Distance to River", "Slope Gradient", "Regional Rainfall", "Land Use",
      "Elevation", "Terrain Curvature", "Lithology">>

ChecklistPosition(label) ==
    CHOOSE k \in 1..Len(ChecklistOrder) : ChecklistOrder[k] = label

SeverityRank(risk) ==
    CASE risk = "Critical" -> 0
      [] risk = "High" -> 1
      [] risk = "Moderate" -> 2
      [] risk = "Low" -> 3

\* C6: the list analyzeFactors returns holds the items the checklist emits,
\* in non-decreasing severity rank, items of equal rank in checklist order.
C6_StableSeveritySort ==
    AnalyzeReturned =>
        LET out == last.ret[1]
            emitted == Checklist(callFactors)
        IN /\ Len(out) = Len(emitted)
           /\ {out[k] : k \in 1..Len(out)}
                  = {emitted[k] : k \in 1..Len(emitted)}
           /\ \A j, k \in 1..Len(emitted) :
                  j < k => ChecklistPosition(emitted[j].factor)
                               < ChecklistPosition(emitted[k].factor)
           /\ \A j, k \in 1..Len(out) :
                  j < k =>
                      \/ SeverityRank(out[j].risk) < SeverityRank(out[k].risk)
                      \/ /\ out[j].risk = out[k].risk
                         /\ ChecklistPosition(out[j].factor)
                                < ChecklistPosition(out[k].factor)

C6_Witness ==
    /\ AnalyzeReturned
    /\ Len(last.ret[1]) >= 5
    /\ last.ret[1] # Checklist(callFactors)
    /\ last.ret[1][2].risk = last.ret[1][3].risk

\* the items of a list that carry the label "Distance to River"
DistanceEntries(list) ==
    {k \in 1..Len(list) : list[k].factor = "Distance to River"}

\* C7: for distanceToRiver < 50 analyzeFactors returns exactly one
\* "Distance to River" item and it is Critical; for 50 <= distanceToRiver <
\* 200 the item is High; for distanceToRiver >= 200 there is none.
C7_DistanceItem ==
    AnalyzeReturned =>
        LET out == last.ret[1]
            d == callFactors.distanceToRiver
        IN /\ d < 50 =>
                  /\ Cardinality(DistanceEntries(out)) = 1
                  /\ \A k \in DistanceEntries(out) : out[k].risk = "Critical"
           /\ (d >= 50 /\ d < 200) =>
                  /\ Cardinality(DistanceEntries(out)) = 1
                  /\ \A k \in DistanceEntries(out) : out[k].risk = "High"
           /\ d >= 200 => DistanceEntries(out) = {}

C7_Witness ==
    /\ AnalyzeReturned
    /\ callFactors.distanceToRiver = 30
    /\ callFactors.slope >= 5
    /\ last.ret[1][1] = [factor |-> "Distance to River", value |-> 30,
                         risk |-> "Critical"]

\* C8: for the FactorSet {elevation 20, slope 1, aspect 90, profileCurvature
\* -4, distanceToRiver 20, rainfall 2500, "Urban Built-Up", "Alluvial
\* Deposits"} predict returns riskLevel "Very High" with probability >= 0.75
\* and analyzeFactors returns at least 5 items, "Distance to River" first.
C8_EndToEnd ==
    /\ (last.op = "predict" /\ callFactors = HighRisk) =>
           /\ PredictReturned
           /\ last.ret[1].riskLevel = "Very High"
           /\ last.ret[1].probability >= 75 * Hundredth
    /\ (last.op = "analyzeFactors" /\ callFactors = HighRisk) =>
           /\ Len(last.ret[1]) >= 5
           /\ last.ret[1][1].factor = "Distance to River"

C8_Witness ==
    /\ PredictReturned
    /\ last.bootstrapped
    /\ callFactors = HighRisk
    /\ last.ret[1].riskLevel = "Very High"

\* C9: the ensemble weights are 0.45 and 0.55 in every state and in every
\* EnsemblePrediction, and their sum is exactly 1.
C9_FixedWeights ==
    /\ rfWeight = 45 * Hundredth
    /\ xgbWeight = 55 * Hundredth
    /\ rfWeight + xgbWeight = Unit
    /\ PredictReturned =>
           /\ last.ret[1].ensembleWeight
                  = [rf |-> 45 * Hundredth, xgb |-> 55 * Hundredth]
           /\ last.ret[1].ensembleWeight.rf + last.ret[1].ensembleWeight.xgb
                  = Unit

C9_Witness ==
    /\ PredictReturned
    /\ ~last.bootstrapped
    /\ rfModel.trainingData # SyntheticData
    /\ last.ret[1].ensembleWeight.rf + last.ret[1].ensembleWeight.xgb = Unit

\* C10: predict on a combiner on which train was never called raises no
\* error, returns a prediction, and leaves the combiner and both
\* sub-scorers trained with the synthetic set.
C10_LazyTraining ==
    [][(~trained /\ last'.op = "predict") =>
           /\ ~last'.threw
           /\ Len(last'.ret) = 1
           /\ trained'
           /\ rfModel'.trained
           /\ xgbModel'.trained
           /\ rfModel'.trainingData = SyntheticData
           /\ xgbModel'.trainingData = SyntheticData]_vars

C10_Witness ==
    /\ PredictReturned
    /\ last.bootstrapped
    /\ trained
    /\ rfModel.trained
    /\ xgbModel.trained
    /\ Len(rfModel.trainingData) = 100

----------------------------------------------------------------------------
\* C11: predict of a scorer whose trained flag is false throws, returns no
\* prediction and leaves the scorer as it was; predict of a scorer whose
\* trained flag is true does not throw.
C11_NotReady ==
    [][/\ (last'.op = "rf.predict" /\ ~baselineRF.trained) =>
            /\ last'.threw
            /\ last'.ret = <<>>
            /\ baselineRF' = baselineRF
       /\ (last'.op = "rf.predict" /\ baselineRF.trained) =>
            /\ ~last'.threw
            /\ Len(last'.ret) = 1
            /\ baselineRF' = baselineRF
       /\ (last'.op = "xgb.predict" /\ ~xgbScorer.trained) =>
            /\ last'.threw
            /\ last'.ret = <<>>
            /\ xgbScorer' = xgbScorer
       /\ (last'.op = "xgb.predict" /\ xgbScorer.trained) =>
            /\ ~last'.threw
            /\ Len(last'.ret) = 1
            /\ xgbScorer' = xgbScorer]_vars

C11_Witness ==
    /\ last.op = "rf.predict"
    /\ last.threw
    /\ ~baselineRF.trained
    /\ xgbScorer.trained

----------------------------------------------------------------------------
\* C12: the trained flags of the combiner and of its two sub-scorers are
\* false at construction, and a flag that is true stays true under every
\* later train, predict, analyzeFactors and isTrained call.
C12_TrainedIsStable ==
    /\ (~trained /\ ~rfModel.trained /\ ~xgbModel.trained)
    /\ [][/\ trained => trained'
          /\ rfModel.trained => rfModel'.trained
          /\ xgbModel.trained => xgbModel'.trained]_vars

C12_Witness ==
    /\ last.op = "train"
    /\ rfModel.trainingData = <<>>
    /\ trained
    /\ rfModel.trained
    /\ xgbModel.trained

----------------------------------------------------------------------------
\* C13: a request for a location off the mainland throws before the core:
\* extractFactors, predict and analyzeFactors are not called, no FactorSet and
\* no response exist, and the combiner is left as it was.
C13_CheckBeforeCore ==
    [][(requests'[1] # requests[1] /\ requests'[1].location # <<>>
            /\ requests'[1].location[1] \in OutsideLocations) =>
          /\ requests'[1].pc = "failed"
          /\ requests'[1].threw
          /\ requests'[1].drawn = <<>>
          /\ requests'[1].factors = <<>>
          /\ requests'[1].response = <<>>
          /\ \A k \in 1..Len(requests'[1].calls) :
                requests'[1].calls[k] \notin
                    {"extractFactors", "predict", "analyzeFactors"}
          /\ UNCHANGED combinerVars]_vars

C13_Witness ==
    /\ requests[1].pc = "failed"
    /\ requests[1].location = <<Location(720, 12540)>>
    /\ requests[1].calls = <<"isPointInPolygon">>
    /\ trained

----------------------------------------------------------------------------
\* what predict returns for each FactorSet of a caller when it is the only
\* call on a freshly constructed combiner
AloneResults ==
    {<<factors, EnsemblePredict(NewEnsemble, factors).call.ret>> :
        factors \in CallerFactors}

\* C14: however the statements of several first predict calls interleave,
\* every call that has finished returned a prediction, the one it returns
\* when run alone, and by then the three trained flags are true.
C14_RacingFirstCalls ==
    \A p \in Callers :
        callers[p].pc = "done" =>
            /\ ~callers[p].threw
            /\ Len(callers[p].ret) = 1
            /\ <<callers[p].factors[1], callers[p].ret>> \in AloneResults
            /\ trained
            /\ rfModel.trained
            /\ xgbModel.trained

C14_Witness ==
    /\ \A p \in Callers : callers[p].pc = "done" /\ callers[p].bootstrapped
    /\ callers[1].factors # callers[2].factors

----------------------------------------------------------------------------
\* what predict returns for each FactorSet on a freshly constructed combiner
FreshResults ==
    {<<factors, EnsemblePredict(NewEnsemble, factors).call.ret>> :
        factors \in SampleFactors}

\* C16: what predict returns depends on the FactorSet alone: whatever train
\* and predict calls came before, with whatever training sets, the result
\* (probability, confidence, riskLevel, component probabilities) is the one
\* a fresh combiner returns for that FactorSet.
C16_ResultDependsOnFactorsOnly ==
    PredictReturned => <<callFactors, last.ret>> \in FreshResults

C16_Witness ==
    /\ PredictReturned
    /\ ~last.bootstrapped
    /\ rfModel.trainingData = <<>>
    /\ xgbModel.trainingData = <<>>
    /\ callFactors = MidRisk

----------------------------------------------------------------------------
\* C17: the confidence EnsemblePredictor.predict returns is
\* 0.6 * (1 - |rfProbability - xgbProbability|)
\* + 0.4 * (rfConfidence + xgbConfidence) / 2 (to within two units of the
\* last place) and lies between 0 and 1.
C17_EnsembleConfidence ==
    PredictReturned =>
        /\ Abs(10 * last.ret[1].confidence
               - (6 * (Unit - Abs(last.sub[1].probability
                                  - last.sub[2].probability))
                  + 2 * (last.sub[1].confidence + last.sub[2].confidence)))
               <= 20
        /\ last.ret[1].confidence >= 0
        /\ last.ret[1].confidence <= Unit

C17_Witness ==
    /\ PredictReturned
    /\ Abs(last.sub[1].probability - last.sub[2].probability) > 15 * Hundredth
    /\ last.sub[1].confidence # last.sub[2].confidence

----------------------------------------------------------------------------
\* C18: between the combiner's operations its trained flag is false exactly
\* when one of the two sub-scorers is untrained, so predict, which tests the
\* combiner's flag, performs the synthetic bootstrap exactly when one of the
\* sub-scorers is untrained.
C18_BootstrapCondition ==
    /\ [](~trained <=> (~rfModel.trained \/ ~xgbModel.trained))
    /\ [][last'.op = "predict" =>
            (last'.bootstrapped
                <=> (~rfModel.trained \/ ~xgbModel.trained))]_vars

C18_Witness ==
    /\ last.op = "predict"
    /\ last.bootstrapped
    /\ callFactors = LowRisk
    /\ rfModel.trainingData = SyntheticData

----------------------------------------------------------------------------
\* a land-use class whose score differs from that of landUseClass
otherLandUse(landUseClass) ==
    IF landUseClass = "Urban Built-Up" THEN "Forest" ELSE "Urban Built-Up"

\* the land-use term is part of the vote: the vote of the same tree for the
\* same factors with another land use is a different one
LandUseCounts ==
    tree.vote # singleTreePredict(
                    [callFactors EXCEPT
                        !.landUseClass = otherLandUse(callFactors.landUseClass)],
                    tree.treeIndex)

\* C19 as stated: the land-use term is part of the vote of tree i exactly
\* when i mod 2 = 1.
C19_LandUseInOddTrees ==
    tree.op = "singleTreePredict" =>
        (LandUseCounts <=> tree.treeIndex % 2 = 1)

\* C19: the land-use term (weight 1.0) is part of the vote of tree i exactly
\* when i mod 2 = 0, and is left out of the trees of odd index.
C19_LandUseInEvenTrees ==
    tree.op = "singleTreePredict" =>
        (LandUseCounts <=> tree.treeIndex % 2 = 0)

C19_Witness ==
    /\ tree.op = "singleTreePredict"
    /\ tree.treeIndex = 4
    /\ LandUseCounts

----------------------------------------------------------------------------
\* the six terms of a vote
Terms == <<"distanceToRiver", "slope", "rainfall", "landUseClass",
           "profileCurvature", "elevation">>

\* the weight of each term, in tenths
TermWeight ==
    [distanceToRiver |-> 15, slope |-> 12, rainfall |-> 10,
     landUseClass |-> 10, profileCurvature |-> 8, elevation |-> 8]

\* the terms that are active in tree i
TermActive(i) ==
    [distanceToRiver |-> i % 5 # 0, slope |-> i % 3 # 0,
     rainfall |-> i % 7 # 0, landUseClass |-> i % 2 = 0,
     profileCurvature |-> TRUE, elevation |-> TRUE]

\* the score, in tenths, of the first row <<limit, score>> with x < limit
RECURSIVE FirstBelow(_, _, _)
FirstBelow(x, rows, otherwise) ==
    IF rows = <<>> THEN otherwise
    ELSE IF x < rows[1][1] THEN rows[1][2]
    ELSE FirstBelow(x, Tail(rows), otherwise)

\* the score, in tenths, of the first row <<limit, score>> with x > limit
RECURSIVE FirstAbove(_, _, _)
FirstAbove(x, rows, otherwise) ==
    IF rows = <<>> THEN otherwise
    ELSE IF x > rows[1][1] THEN rows[1][2]
    ELSE FirstAbove(x, Tail(rows), otherwise)

\* the step tables
TermScore(factors) ==
    [distanceToRiver |->
         FirstBelow(factors.distanceToRiver,
                    << <<50, 9>>, <<200, 6>>, <<500, 4>> >>, 2),
     slope |->
         FirstBelow(factors.slope, << <<5, 8>>, <<15, 5>>, <<30, 3>> >>, 1),
     rainfall |->
         FirstAbove(factors.rainfall, << <<2200, 7>>, <<1900, 5>> >>, 3),
     landUseClass |->
         CASE factors.landUseClass = "Urban Built-Up" -> 7
           [] factors.landUseClass = "Agricultural Land" -> 5
           [] OTHER -> 3,
     profileCurvature |->
         FirstBelow(factors.profileCurvature, << <<-2, 6>>, <<0, 4>> >>, 0),
     elevation |->
         FirstBelow(factors.elevation, << <<50, 7>>, <<150, 4>> >>, 0)]

\* the sum of what[t] over the terms t that are active in tree i
ActiveSum(what, i) ==
    SumSeq([k \in 1..Len(Terms) |->
               IF TermActive(i)[Terms[k]] THEN what[Terms[k]] ELSE 0])

\* the vote of tree i: the scores of its active terms over their weights
Vote(factors, i) ==
    FDiv(ActiveSum(TermScore(factors), i), ActiveSum(TermWeight, i))

\* the mean of the votes of the trees 0 .. numTrees - 1
MeanVote(factors) ==
    RDiv(SumSeq([k \in 1..numTrees |-> Vote(factors, k - 1)]), numTrees)

\* C20: the probability RandomForestModel.predict returns is the mean of
\* the votes of the trees 0 .. numTrees - 1, the vote of a tree being the sum
\* of the step-table scores of its active terms over the sum of their
\* weights; elevation and curvature (0.8 each) are active in every tree,
\* distance to river (1.5), slope (1.2) and rainfall (1.0) in all trees but
\* the multiples of 5, 3 and 7, and the tables compare strictly.
C20_MeanOfTreeVotes ==
    (last.op = "predict" /\ Len(last.sub) = 2) =>
        last.sub[1].probability = MeanVote(callFactors)

C20_Witness ==
    /\ last.op = "predict"
    /\ Len(last.sub) = 2
    /\ callFactors.distanceToRiver = 50
    /\ callFactors.rainfall = 2200
    /\ last.sub[1].probability = MeanVote(callFactors)

----------------------------------------------------------------------------
\* the FactorSets extractFactors can return for the requests served at once
ConcurrentFactors ==
    UNION {{extractFactorsEnd(location, drawn) :
               drawn \in SampledDraws(location)} :
           location \in ConcurrentLocations}

\* what predict returns for each of them
ConcurrentResults ==
    {<<factors, EnsemblePredict(NewEnsemble, factors).call.ret[1]>> :
        factors \in ConcurrentFactors}

\* C15: however the handlers of several requests interleave at their
\* awaits, the prediction and the factorImportance of a response are those
\* of the FactorSet in that response, that FactorSet is the one extractFactors
\* returned to this request for this request's own location, unmodified, and
\* the shared combiner holds nothing of any request.
C15_ResponsesDoNotMix ==
    /\ \A r \in Requests :
          requests[r].pc = "responded" =>
              /\ <<requests[r].response[1].factors,
                    requests[r].response[1].prediction>> \in ConcurrentResults
              /\ requests[r].response[1].factorImportance
                     = analyzeFactors(requests[r].response[1].factors)
              /\ requests[r].response[1].location = requests[r].location[1]
              /\ requests[r].response[1].factors
                     \in {extractFactorsEnd(requests[r].location[1], drawn) :
                            drawn \in extractFactorsBegin(
                                          requests[r].location[1])}
              /\ requests[r].response[1].factors = requests[r].factors[1]
    /\ Self \in {NewEnsemble, EnsembleTrain(NewEnsemble, SyntheticData)}

C15_Witness ==
    /\ requests[1].pc = "awaitFactors"
    /\ requests[2].pc = "responded"
    /\ requests[1].location # requests[2].location
    /\ requests[1].factors # requests[2].factors

----------------------------------------------------------------------------
\* the factor in focus in round r and its weight, in tenths
FocusFactor(r) ==
    <<"distanceToRiver", "slope", "rainfall", "landUseClass">>[(r % 4) + 1]

FocusWeight(r) == <<15, 12, 10, 11>>[(r % 4) + 1]

\* the lookup tables, in hundredths
RiskTable(factors) ==
    [distanceToRiver |->
         FirstBelow(factors.distanceToRiver,
                    << <<50, 95>>, <<100, 85>>, <<200, 70>>, <<500, 50>>,
                       <<1000, 30>> >>, 15),
     slope |->
         FirstBelow(factors.slope,
                    << <<2, 90>>, <<5, 75>>, <<10, 55>>, <<20, 35>>,
                       <<35, 20>> >>, 10),
     rainfall |->
         FirstAbove(factors.rainfall,
                    << <<2400, 85>>, <<2200, 70>>, <<2000, 60>>,
                       <<1800, 50>> >>, 40),
     landUseClass |->
         CASE factors.landUseClass = "Urban Built-Up" -> 80
           [] factors.landUseClass = "Agricultural Land" -> 60
           [] factors.landUseClass = "Mixed Vegetation" -> 40
           [] factors.landUseClass = "Forest" -> 25
           [] OTHER -> 50,
     elevation |->
         FirstBelow(factors.elevation,
                    << <<20, 85>>, <<50, 70>>, <<100, 55>>, <<200, 40>> >>,
                    25),
     profileCurvature |->
         FirstBelow(factors.profileCurvature,
                    << <<-3, 80>>, <<-1, 65>>, <<0, 55>>, <<2, 45>> >>, 35)]

\* weight * (focusRisk - prediction) + 0.8 * (elevationRisk - prediction)
\* + 0.7 * (curvatureRisk - prediction)
RoundGradient(factors, prediction, r) ==
    Mul(FocusWeight(r) * Tenth,
        RiskTable(factors)[FocusFactor(r)] * Hundredth - prediction)
    + Mul(8 * Tenth, RiskTable(factors).elevation * Hundredth - prediction)
    + Mul(7 * Tenth,
          RiskTable(factors).profileCurvature * Hundredth - prediction)

\* C21: the boosting loop starts from 0.5; round r uses the one factor in
\* focus for r mod 4 (distance 1.5, slope 1.2, rainfall 1.0, land use 1.1)
\* besides elevation (0.8) and curvature (0.7), and sets prediction to
\* clamp(prediction + 0.1 * gradient, 0, 1); the probability returned is
\* the prediction after round numRounds - 1.
C21_BoostingRounds ==
    /\ [][(boost.op = "none" /\ boost'.op = "loop") =>
            (boost'.round = 0 /\ boost'.prediction = 5 * Tenth)]_vars
    /\ [][(boost.op = "loop" /\ boost'.op = "loop") =>
            /\ boost'.round = boost.round + 1
            /\ boost'.gradient
                   = RoundGradient(callFactors, boost.prediction, boost.round)
            /\ boost'.prediction
                   = Max(0, Min(Unit, boost.prediction
                                         + Mul(1 * Tenth, boost'.gradient)))]_vars
    /\ [](boost.op = "returned" =>
            /\ boost.round = numRounds
            /\ boost.prediction = XGBScore(callFactors).probability)

C21_Witness ==
    /\ boost.op = "returned"
    /\ callFactors.landUseClass = "Forest"
    /\ callFactors.rainfall = 2200
    /\ boost.prediction # 5 * Tenth

----------------------------------------------------------------------------
\* C27: with learningRate 0.1 the value prediction + learningRate * gradient
\* of every round lies in [0.10, 0.95] before it is clamped, so the clamp
\* to [0, 1] leaves it as it is, and the probability returned lies in
\* [0.10, 0.95].
C27_ClampNeverActs ==
    boost.op \in {"loop", "returned"} =>
        /\ boost.stepped >= 10 * Hundredth
        /\ boost.stepped <= 95 * Hundredth
        /\ boost.prediction = boost.stepped

C27_Witness ==
    /\ boost.op = "returned"
    /\ boost.round = numRounds
    /\ boost.stepped > 80 * Hundredth
    /\ boost.prediction = boost.stepped

----------------------------------------------------------------------------
\* C22: every riskLevel the program derives from a probability follows one
\* banding (< 0.25 Low, < 0.5 Moderate, < 0.75 High, else Very High): the
\* labels in a response of analyzeLocation are those the scorers and the
\* combiner give to the probabilities beside them.
C22_OneBanding ==
    (mock.op = "analyzeLocation" /\ ~mock.threw) =>
        /\ mock.baselineRF.riskLevel
               = calculateRiskLevel(mock.baselineRF.probability)
        /\ mock.baselineRF.riskLevel
               = ensembleRiskLevel(mock.baselineRF.probability)
        /\ mock.prediction.riskLevel
               = calculateRiskLevel(mock.prediction.probability)
        /\ mock.prediction.riskLevel
               = ensembleRiskLevel(mock.prediction.probability)

----------------------------------------------------------------------------
\* C23: in every FactorSet extractFactors returns, slope < 5 goes with a
\* profileCurvature in [-5, -2) and slope >= 5 with one in [-3, 3), whatever
\* the random draws, the slope draw of getProfileCurvature included.
C23_CurvatureFitsSlope ==
    requests[1].factors # <<>> =>
        IF requests[1].factors[1].slope < 5
          THEN /\ requests[1].factors[1].profileCurvature >= -5
               /\ requests[1].factors[1].profileCurvature < -2
          ELSE /\ requests[1].factors[1].profileCurvature >= -3
               /\ requests[1].factors[1].profileCurvature < 3

C23_Witness ==
    /\ requests[1].factors # <<>>
    /\ requests[1].factors[1].slope = 4
    /\ requests[1].factors[1].profileCurvature = -3

----------------------------------------------------------------------------
\* the square of the distance to the reference point 7.07 N, 125.61 E, in
\* hundredths of a degree
ReferenceSquared(location) ==
    (location.latitude - 707) * (location.latitude - 707)
        + (location.longitude - 12561) * (location.longitude - 12561)

\* C24: extractFactors returns, for every location, elevation =
\* clamp(distanceFromReference * 50, 0, 500), here in whole metres, and the
\* lithology of its band: Alluvial Deposits below 50, Sedimentary Rock from
\* 50 to below 200, Volcanic Rock from 200 to below 500, Metamorphic Rock
\* at 500.
C24_ElevationAndLithology ==
    requests[1].factors # <<>> =>
        LET elevation == requests[1].factors[1].elevation
            lithology == requests[1].factors[1].lithology
            square == ReferenceSquared(requests[1].location[1]) * 111 * 111
        IN  /\ elevation \in 0..500
            /\ (elevation = 500) <=> (square >= 4 * 500 * 500)
            /\ elevation < 500 =>
                  /\ 4 * elevation * elevation <= square
                  /\ square < 4 * (elevation + 1) * (elevation + 1)
            /\ (lithology = "Alluvial Deposits") <=> (elevation < 50)
            /\ (lithology = "Sedimentary Rock")
                  <=> (elevation >= 50 /\ elevation < 200)
            /\ (lithology = "Volcanic Rock")
                  <=> (elevation >= 200 /\ elevation < 500)
            /\ (lithology = "Metamorphic Rock") <=> (elevation = 500)

C24_Witness ==
    /\ requests[1].factors # <<>>
    /\ requests[1].location[1] = Location(950, 12800)
    /\ requests[1].factors[1].elevation = 500
    /\ requests[1].factors[1].lithology = "Metamorphic Rock"

----------------------------------------------------------------------------
\* the calls that only read
Queries == {"analyzeFactors", "isTrained", "getModelInfo"}

\* C25: analyzeFactors, isTrained and getModelInfo change no trained flag
\* and need no training: they return without error and without the
\* bootstrap, analyzeFactors with its list also on an untrained combiner,
\* and getModelInfo reports trained, which is false until the first train
\* or predict and true from then on.
C25_QueriesChangeNothing ==
    /\ [](last.op = "none" => ~trained)
    /\ [][last'.op \in Queries =>
            /\ UNCHANGED combinerVars
            /\ ~last'.threw
            /\ ~last'.bootstrapped
            /\ last'.ret # <<>>]_vars
    /\ [][last'.op = "analyzeFactors" =>
            last'.ret = <<analyzeFactors(callFactors')>>]_vars
    /\ [][last'.op = "isTrained" => last'.ret = <<trained>>]_vars
    /\ [][last'.op = "getModelInfo" => last'.ret[1].trained = trained]_vars
    /\ [][last'.op \in {"train", "predict"} => trained']_vars
    /\ [][trained => trained']_vars

C25_Witness ==
    /\ last.op = "analyzeFactors"
    /\ last.ret = <<analyzeFactors(callFactors)>>
    /\ ~trained
    /\ ~rfModel.trained
    /\ ~xgbModel.trained

----------------------------------------------------------------------------
\* C26: at every step of every sequence of train and predict calls, also
\* between the statements of train, the combiner's trained flag is true
\* only if the flags of both sub-scorers are; so the sub-scorers are ready
\* whenever the combiner calls their predict, and no call throws.
C26_FlagImpliesSubFlags ==
    /\ trained => (rfModel.trained /\ xgbModel.trained)
    /\ \A p \in Callers :
          /\ callers[p].pc = "rfPredict" => rfModel.trained
          /\ callers[p].pc = "xgbPredict" => xgbModel.trained
          /\ ~callers[p].threw

C26_Witness ==
    /\ callers[1].op = "train"
    /\ callers[1].pc = "xgbTrain"
    /\ rfModel.trained
    /\ ~xgbModel.trained
    /\ ~trained

----------------------------------------------------------------------------
\* 50 flooded points followed by 50 unflooded points
FiftyFifty(trainingData) ==
    /\ Len(trainingData) = 100
    /\ \A k \in 1..100 : trainingData[k].flooded <=> (k <= 50)

\* C28: the synthetic bootstrap, 50 flooded followed by 50 unflooded
\* points, runs at most once: only in a predict on the combiner as it was
\* constructed, so in the first predict and never after a train; every
\* later predict leaves the stored training data as they are.
C28_BootstrapOnce ==
    /\ [][(last'.op = "predict" /\ last'.bootstrapped) =>
            /\ ~trained /\ trained'
            /\ rfModel = NewEnsemble.rfModel
            /\ xgbModel = NewEnsemble.xgbModel
            /\ FiftyFifty(rfModel'.trainingData)
            /\ FiftyFifty(xgbModel'.trainingData)]_vars
    /\ [][(trained /\ last'.op = "predict") =>
            /\ ~last'.bootstrapped
            /\ UNCHANGED <<rfModel, xgbModel>>]_vars
    /\ [][last'.op = "train" => trained']_vars
    /\ [][trained => trained']_vars

C28_Witness ==
    /\ last.op = "predict"
    /\ ~last.bootstrapped
    /\ FiftyFifty(rfModel.trainingData)
    /\ FiftyFifty(xgbModel.trainingData)

----------------------------------------------------------------------------
\* the labels an item may carry: none of them is for aspect
ItemLabels ==
    {"Distance to River", "Slope Gradient", "Regional Rainfall", "Land Use",
     "Elevation", "Terrain Curvature", "Lithology"}

\* C29: analyzeFactors returns at most 7 items with pairwise distinct
\* labels, none for aspect and none with risk Low; an item is Critical only
\* as Distance to River with distanceToRiver < 50 or as Slope Gradient with
\* slope < 2, and a Critical slope item comes before a High distance item.
C29_ItemsOfTheList ==
    last.op = "analyzeFactors" =>
        LET items == last.ret[1]
        IN  /\ Len(items) <= 7
            /\ \A i, j \in 1..Len(items) :
                  i # j => items[i].factor # items[j].factor
            /\ \A i \in 1..Len(items) :
                  /\ items[i].factor \in ItemLabels
                  /\ items[i].risk \in {"Critical", "High", "Moderate"}
                  /\ items[i].risk = "Critical" =>
                        \/ /\ items[i].factor = "Distance to River"
                           /\ callFactors.distanceToRiver < 50
                        \/ /\ items[i].factor = "Slope Gradient"
                           /\ callFactors.slope < 2
            /\ \A i, j \in 1..Len(items) :
                  (/\ items[i].factor = "Slope Gradient"
                   /\ items[i].risk = "Critical"
                   /\ items[j].factor = "Distance to River"
                   /\ items[j].risk = "High") => i < j

C29_Witness ==
    /\ last.op = "analyzeFactors"
    /\ Len(last.ret[1]) = 7
    /\ last.ret[1][1].factor = "Slope Gradient"
    /\ last.ret[1][1].risk = "Critical"
    /\ last.ret[1][2].factor = "Distance to River"
    /\ last.ret[1][2].risk = "High"

----------------------------------------------------------------------------
\* the votes of the 100 trees for a FactorSet
TreeVotes(factors) ==
    [k \in 1..numTrees |-> singleTreePredict(factors, k - 1)]

\* C30: with 100 trees every tree has a total active weight of at least
\* 1.6, so the default vote 0.5 is never used, and every vote lies in
\* [0, 0.8125]; 1 - variance of the votes is above 0.75, so the confidence
\* is 1 - variance and the floor 0.5 does not determine it.
C30_WeightsVotesAndFloor ==
    (last.op = "predict" /\ Len(last.sub) = 2) =>
        /\ numTrees = 100
        /\ \A treeIndex \in 0..(numTrees - 1) :
              /\ treeWeight(treeIndex) >= 16 * Tenth
              /\ singleTreePredict(callFactors, treeIndex)
                     = FDiv(treeScore(callFactors, treeIndex),
                            treeWeight(treeIndex))
              /\ singleTreePredict(callFactors, treeIndex) >= 0
              /\ singleTreePredict(callFactors, treeIndex) <= 8125
        /\ Unit - calculateVariance(TreeVotes(callFactors)) > 75 * Hundredth
        /\ last.sub[1].confidence
               = Unit - calculateVariance(TreeVotes(callFactors))

C30_Witness ==
    /\ last.op = "predict"
    /\ Len(last.sub) = 2
    /\ callFactors = HighRisk
    /\ singleTreePredict(callFactors, 15) > 75 * Hundredth
    /\ last.sub[1].confidence > 75 * Hundredth
    /\ last.sub[1].confidence < Unit

============================================================================
